---- MODULE Spec2Model ----
(***************************************************************************)
(* A model of src/src/cookiecutter.py: the command synthesis of            *)
(* ParallelLauncher.__init__, the dry run print_commands() and the         *)
(* spawn/poll/reap loop of ParallelLauncher.launch() running next to the   *)
(* child processes it starts.                                              *)
(*                                                                         *)
(* A Python str is a sequence of one-character strings, so that len(),     *)
(* indexing, str.format and str.join are computed character by character.  *)
(***************************************************************************)
EXTENDS Integers, Sequences, FiniteSets, TLC

(***************************************************************************)
(* Bounds of the model.                                                    *)
(***************************************************************************)
MaxPathLen == 2      \* longest file path drawn for the command builder
MaxArgs == 2         \* most entries of an argument dictionary
MaxUnits == 3        \* most input units handed to a launcher that is launched
MaxThreads == 1      \* largest capacity (threads) drawn
NegThreads == 1      \* the smallest capacity drawn is 0 - NegThreads
MaxLaunches == 2     \* calls of launch() on one launcher
MaxPrints == 2       \* calls of print_commands() on one launcher
MaxSeqLen == 3       \* longest sequence handed to get_revcomp
MaxRevcompCalls == 2 \* get_revcomp applied to its own result this often
MaxFastaLines == 3   \* most lines of a FASTA file drawn line by line
MaxRecordLines == 26 \* most lines of the one record of a long FASTA file
MaxKmerLength == 2   \* largest kmer_length drawn

(***************************************************************************)
(* Python values.                                                          *)
(***************************************************************************)
\* None, and the TypeError a statement raises instead of yielding a value
None == [kind |-> "NoneType", val |-> <<>>]
TypeError == [kind |-> "TypeError", val |-> <<>>]

PyStr(s) == [kind |-> "str", val |-> s]
PyBool(b) == [kind |-> "bool", val |-> b]
PyInt(n) == [kind |-> "int", val |-> n]
PyTuple(t) == [kind |-> "tuple", val |-> t]
PyDict(d) == [kind |-> "dict", val |-> d]

\* len(x) of a str (its characters) or of a tuple (its items)
PyLen(x) == Len(x.val)

\* the sequences over S of length lo..hi
SeqsOf(S, lo, hi) == UNION {[1..n -> S] : n \in lo..hi}

RECURSIVE JoinStr(_, _)
\* sep.join(parts), every part being a character sequence
JoinStr(sep, parts) ==
    IF parts = <<>> THEN <<>>
    ELSE IF Len(parts) = 1 THEN parts[1]
    ELSE parts[1] \o sep \o JoinStr(sep, Tail(parts))

\* repr() of a str without quotes or escapes in it
Repr(s) == <<"'">> \o s \o <<"'">>

\* str() of a tuple of strs, as '{}'.format(t) renders it
TupleStr(t) ==
    <<"(">> \o JoinStr(<<",", " ">>, [k \in 1..Len(t) |-> Repr(t[k])])
            \o (IF Len(t) = 1 THEN <<",">> ELSE <<>>) \o <<")">>

\* '{}'.format(x): the text one replacement field gets
Format1(x) == IF x.kind = "str" THEN x.val ELSE TupleStr(x.val)

\* the positional arguments of format(*x): the characters of a str, each a
\* str of length one, or the items of a tuple
StarArgs(x) ==
    IF x.kind = "str" THEN [k \in 1..Len(x.val) |-> <<x.val[k]>>] ELSE x.val

(***************************************************************************)
(* ParallelLauncher.__init__: command synthesis.                           *)
(***************************************************************************)
program_names ==
    [extractor |-> <<"e","x","t","r","a","c","t","o","r">>,
     remove    |-> <<"r","e","m","o","v","e">>,
     rm_reads  |-> <<"r","m","_","r","e","a","d","s">>,
     separate  |-> <<"s","e","p","a","r","a","t","e">>]

\* one pass of the loop over args.iteritems(): what the entry adds to the list
ArgItems(entry) ==
    IF entry.value.kind = "bool" /\ entry.value.val = TRUE
    THEN <<PyStr(entry.key)>>
    ELSE <<PyStr(entry.key), entry.value>>

RECURSIVE TemplateItems(_)
\* the items appended to cmd_template for the entries, in iteration order
TemplateItems(entries) ==
    IF entries = <<>> THEN <<>>
    ELSE ArgItems(Head(entries)) \o TemplateItems(Tail(entries))

\* cmd_template as a list, before the join
TemplateList(prog, a) ==
    <<PyStr(prog)>> \o (IF a.kind = "NoneType" THEN <<>> ELSE TemplateItems(a.val))

\* ' '.join(items): str.join raises TypeError on an item that is no str
Join(items) ==
    IF \E k \in 1..Len(items) : items[k].kind # "str" THEN TypeError
    ELSE PyStr(JoinStr(<<" ">>, [k \in 1..Len(items) |-> items[k].val]))

\* cmd_template after the join
CmdTemplate(prog, a) == Join(TemplateList(prog, a))

\* file_line for one element of input_files
FileLine(unit) ==
    IF PyLen(unit) = 2
    THEN <<"-", "1", " ">> \o StarArgs(unit)[1]
            \o <<" ", "-", "2", " ">> \o StarArgs(unit)[2]
    ELSE <<"-", "i", " ">> \o Format1(unit)

\* the entry of cmd_list for one element of input_files
Command(template, unit) == template.val \o <<" ">> \o FileLine(unit)

\* cmd_list as the loop over input_files leaves it
CmdList(template, files) ==
    [k \in 1..Len(files) |-> Command(template, files[k])]

VARIABLES
    program,        \* self.__program
    input_files,    \* self.__input_files
    args,           \* self.__args: None, or the entries in iteration order
    threads,        \* self.__threads
    cmd_template,   \* the joined template __init__ computed
    cmd_list,       \* self.__cmd_list
    pc,             \* where the caller's single thread is
    running,        \* launch(): the list of Popen handles
    i,              \* launch(): the index of the for loop over running
    procs,          \* the child processes spawned so far, in spawn order
    log,            \* the outcome records handed to logger.info
    stdout,         \* the lines of the most recent print_commands()
    launches,       \* calls of launch() so far
    prints,         \* calls of print_commands() so far
    queued,         \* len(self.__cmd_list) when the current launch() began
    waited,         \* the current launch() has entered its wait loop
    polled,         \* the current launch() has polled since its last spawn
    binaries,       \* the state of ./<name> for each name of program_names
    argv,           \* the namespace parser.parse_args() will return
    ns,             \* cookiecutter(): args, None before parse_args()
    fasta,          \* the lines of the FASTA file create_kmer_file reads
    kmer_length,    \* create_kmer_file: kmer_length
    kmer_file,      \* the lines create_kmer_file wrote, None before it ran
    seq,            \* get_revcomp: the sequence handed to the first call
    revcomp         \* get_revcomp: the results of the calls made so far

\* what the launcher of a constructed ParallelLauncher leaves alone
env == <<binaries, argv, ns, fasta, kmer_length, kmer_file, seq, revcomp>>

vars == <<program, input_files, args, threads, cmd_template, cmd_list, pc,
          running, i, procs, log, stdout, launches, prints, queued, waited,
          polled, binaries, argv, ns, fasta, kmer_length, kmer_file, seq,
          revcomp>>

(***************************************************************************)
(* The inputs drawn.                                                       *)
(***************************************************************************)
PathChars == {"a", "b"}
Paths == SeqsOf(PathChars, 1, MaxPathLen)

\* the elements cookiecutter() puts in input_files: the strs of args.input,
\* or the 2-tuples of zip(args.fastq1, args.fastq2)
SingleUnits == {PyStr(p) : p \in Paths}
PairedUnits == {PyTuple(<<p, q>>) : p \in Paths, q \in Paths}
Units == SingleUnits \cup PairedUnits

Keys == {<<"-", "f">>, <<"-", "d">>, <<"-", "N">>}
Values == {PyBool(TRUE), PyBool(FALSE), PyStr(<<"x">>), PyInt(4)}

\* a dict in its iteration order: no key twice
Dicts ==
    {d \in SeqsOf([key : Keys, value : Values], 0, MaxArgs) :
        \A j, k \in 1..Len(d) : d[j].key = d[k].key => j = k}

\* the inputs of the launcher that is launched: a single-end unit and a
\* paired-end one, and argument sets __init__ accepts
LaunchUnits == {PyStr(<<"a">>), PyTuple(<<<<"a">>, <<"b">>>>)}
LaunchArgs ==
    {None, PyDict(<<[key |-> <<"-", "f">>, value |-> PyStr(<<"x">>)]>>)}
ExitCodes == {0, 1}

LaunchPcs == {"outer", "inner", "scan", "sleep", "spawn"}

InitRest ==
    /\ cmd_template = None
    /\ cmd_list = <<>>
    /\ pc = "new"
    /\ running = <<>>
    /\ i = 0
    /\ procs = <<>>
    /\ log = <<>>
    /\ stdout = <<>>
    /\ launches = 0
    /\ prints = 0
    /\ queued = 0
    /\ waited = FALSE
    /\ polled = FALSE

\* no program run, no k-mer library and no reverse complement is modelled
InitEnv ==
    /\ binaries = [n \in DOMAIN program_names |-> "executable"]
    /\ argv = None
    /\ ns = None
    /\ fasta = <<>>
    /\ kmer_length = 1
    /\ kmer_file = None
    /\ seq = <<>>
    /\ revcomp = <<>>

\* the arguments of a ParallelLauncher(...) call that is then launched
Init ==
    /\ program = program_names.extractor
    /\ input_files \in SeqsOf(LaunchUnits, 0, MaxUnits)
    /\ args \in LaunchArgs
    /\ threads \in (0 - NegThreads)..MaxThreads
    /\ InitRest
    /\ InitEnv

\* the arguments of a ParallelLauncher(...) call, for the command builder
InitBuild ==
    /\ program \in {program_names.extractor, program_names.rm_reads}
    /\ input_files \in SeqsOf(Units, 0, 1)
    /\ args \in {None} \cup {PyDict(d) : d \in Dicts}
    /\ threads = 1
    /\ InitRest
    /\ InitEnv

(***************************************************************************)
(* ParallelLauncher.__init__                                               *)
(***************************************************************************)
Construct ==
    /\ pc = "new"
    /\ cmd_template' = CmdTemplate(program, args)
    /\ IF cmd_template'.kind = "TypeError"
       THEN /\ pc' = "raised"
            /\ cmd_list' = <<>>
       ELSE /\ pc' = "idle"
            /\ cmd_list' = CmdList(cmd_template', input_files)
    /\ UNCHANGED <<program, input_files, args, threads, running, i, procs,
                   log, stdout, launches, prints, queued, waited, polled>>
    /\ UNCHANGED env

(***************************************************************************)
(* ParallelLauncher.print_commands                                         *)
(***************************************************************************)
\* variant: the loop consumes the list it prints
PrintedPopping(cmds) == [lines |-> cmds, left |-> <<>>]

\* variant: the lines are made anew from the input units
PrintedFromInputs(cmds) ==
    [lines |-> CmdList(cmd_template, input_files), left |-> cmds]

\* the loop "for i in self.__cmd_list: print i": the lines written and the
\* list it leaves
Printed(cmds) == [lines |-> cmds, left |-> cmds]

PrintCommands ==
    /\ pc = "idle"
    /\ prints < MaxPrints
    /\ stdout' = Printed(cmd_list).lines
    /\ cmd_list' = Printed(cmd_list).left
    /\ prints' = prints + 1
    /\ UNCHANGED <<program, input_files, args, threads, cmd_template, pc,
                   running, i, procs, log, launches, queued, waited, polled>>
    /\ UNCHANGED env

(***************************************************************************)
(* ParallelLauncher.launch, one step per statement that reads or writes    *)
(* what the children change.                                               *)
(***************************************************************************)
\* variant: the wait loop is entered before the queue is tested
LaunchEntryAtWait == "inner"

\* where launch() starts: at the test of "while self.__cmd_list"
LaunchEntry == "outer"

\* running = []
LaunchCall ==
    /\ pc = "idle"
    /\ launches < MaxLaunches
    /\ running' = <<>>
    /\ launches' = launches + 1
    /\ queued' = Len(cmd_list)
    /\ waited' = FALSE
    /\ polled' = FALSE
    /\ pc' = LaunchEntry
    /\ UNCHANGED <<program, input_files, args, threads, cmd_template,
                   cmd_list, i, procs, log, stdout, prints>>
    /\ UNCHANGED env

\* while self.__cmd_list:
OuterTest ==
    /\ pc = "outer"
    /\ pc' = IF cmd_list # <<>> THEN "inner" ELSE "idle"
    /\ UNCHANGED <<program, input_files, args, threads, cmd_template,
                   cmd_list, running, i, procs, log, stdout, launches, prints,
                   queued, waited, polled>>
    /\ UNCHANGED env

\* variant: a negative capacity counts as zero
MustWaitClamped(n, c) == n > (IF c < 0 THEN 0 ELSE c)

\* variant: wait as soon as the capacity is reached
MustWaitAtCapacity(n, c) == n >= c

\* variant: wait one job later
MustWaitAboveNext(n, c) == n > c + 1

\* len(running) > self.__threads
MustWait(n, c) == n > c

\* while len(running) > self.__threads:
InnerTest ==
    /\ pc = "inner"
    /\ IF MustWait(Len(running), threads)
       THEN /\ pc' = "scan"
            /\ i' = 1
            /\ waited' = TRUE
       ELSE /\ pc' = "spawn"
            /\ UNCHANGED <<i, waited>>
    /\ UNCHANGED <<program, input_files, args, threads, cmd_template,
                   cmd_list, running, procs, log, stdout, launches, prints,
                   queued, polled>>
    /\ UNCHANGED env

\* variant: the first handle of the list is the one dropped
RemoveFirst(r, k) == Tail(r)

\* running[i] = None; running = [x for x in running if x is not None]
RemoveAt(r, k) == [j \in 1..(Len(r) - 1) |-> IF j < k THEN r[j] ELSE r[j + 1]]

\* the record of the logger.info call for an exited process
Outcome(p, returncode, remain) ==
    [proc |-> p,
     outcome |-> IF returncode = 0 THEN "succeeded" ELSE "failed",
     code |-> returncode,
     remain |-> remain]

\* variant: only a process that exited with code 0 counts as exited
ExitedWithSuccess(returncode) ==
    returncode.kind # "NoneType" /\ returncode.val = 0

\* returncode is not None
Exited(returncode) == returncode.kind # "NoneType"

\* variant: a failed process ends launch()
AfterReapStopOnFailure(returncode) ==
    IF returncode.val = 0 THEN "sleep" ELSE "idle"

\* after an exited process is logged and removed: break, then time.sleep(1)
AfterReap(returncode) == "sleep"

\* one pass of "for i, process in enumerate(running)": process.poll() and
\* the branch on its result
Poll ==
    /\ pc = "scan"
    /\ IF i > Len(running)
       THEN /\ pc' = "sleep"
            /\ i' = 0
            /\ UNCHANGED <<running, log, polled>>
       ELSE LET returncode == procs[running[i]].returncode IN
            /\ polled' = TRUE
            /\ IF Exited(returncode)
               THEN /\ log' = Append(log, Outcome(running[i], returncode.val,
                                                  Len(cmd_list)))
                    /\ running' = RemoveAt(running, i)
                    /\ pc' = AfterReap(returncode)
                    /\ i' = 0
               ELSE /\ i' = i + 1
                    /\ UNCHANGED <<pc, running, log>>
    /\ UNCHANGED <<program, input_files, args, threads, cmd_template,
                   cmd_list, procs, stdout, launches, prints, queued, waited>>
    /\ UNCHANGED env

\* time.sleep(1)
Sleep ==
    /\ pc = "sleep"
    /\ pc' = "inner"
    /\ UNCHANGED <<program, input_files, args, threads, cmd_template,
                   cmd_list, running, i, procs, log, stdout, launches, prints,
                   queued, waited, polled>>
    /\ UNCHANGED env

\* variant: pop(0), the first element
PopFirst(cmds) == [cmd |-> Head(cmds), rest |-> Tail(cmds)]

\* self.__cmd_list.pop(): the last element, and the list without it
Pop(cmds) == [cmd |-> cmds[Len(cmds)], rest |-> SubSeq(cmds, 1, Len(cmds) - 1)]

\* curr_cmd = self.__cmd_list.pop()
\* running.append(subprocess.Popen(curr_cmd, shell=True))
Spawn ==
    /\ pc = "spawn"
    /\ cmd_list' = Pop(cmd_list).rest
    /\ procs' = Append(procs, [cmd |-> Pop(cmd_list).cmd, returncode |-> None])
    /\ running' = Append(running, Len(procs) + 1)
    /\ polled' = FALSE
    /\ pc' = "outer"
    /\ UNCHANGED <<program, input_files, args, threads, cmd_template, i, log,
                   stdout, launches, prints, queued, waited>>
    /\ UNCHANGED env

(***************************************************************************)
(* A child process exits, at any time after its spawn, with some code.     *)
(***************************************************************************)
ChildExit(p) ==
    /\ procs[p].returncode.kind = "NoneType"
    /\ \E code \in ExitCodes :
          procs' = [procs EXCEPT ![p].returncode = PyInt(code)]
    /\ UNCHANGED <<program, input_files, args, threads, cmd_template,
                   cmd_list, pc, running, i, log, stdout, launches, prints,
                   queued, waited, polled>>
    /\ UNCHANGED env

ChildExits == \E p \in 1..Len(procs) : ChildExit(p)

LaunchStep == OuterTest \/ InnerTest \/ Poll \/ Sleep \/ Spawn

Next ==
    \/ Construct
    \/ PrintCommands
    \/ LaunchCall
    \/ OuterTest
    \/ InnerTest
    \/ Poll
    \/ Sleep
    \/ Spawn
    \/ ChildExits

NextBuild == Construct

Spec == Init /\ [][Next]_vars

SpecBuild == InitBuild /\ [][NextBuild]_vars

\* a ParallelLauncher(...) call without an argument set: launch() reads
\* neither the arguments nor the template
InitFair ==
    /\ Init
    /\ args = None

\* the caller's thread keeps running inside launch(), and every child exits
FairSpec ==
    /\ InitFair
    /\ [][Next]_vars
    /\ WF_vars(LaunchStep)
    /\ \A p \in 1..MaxUnits : WF_vars(p \in 1..Len(procs) /\ ChildExit(p))

(***************************************************************************)
(* get_revcomp                                                             *)
(***************************************************************************)
\* the two strings zipped into the dict c
ComplementKeys == <<"A", "T", "C", "G", "N", "a", "t", "c", "g", "n", "[", "]">>
ComplementValues == <<"T", "A", "G", "C", "N", "t", "a", "g", "c", "n", "]", "[">>

\* c.get(nucleotide, '')
ComplementGet(nucleotide) ==
    IF \E k \in 1..Len(ComplementKeys) : ComplementKeys[k] = nucleotide
    THEN <<ComplementValues[CHOOSE k \in 1..Len(ComplementKeys) :
                                ComplementKeys[k] = nucleotide]>>
    ELSE <<>>

RECURSIVE GetComplementUnreversed(_)
\* variant: the complement of seq, read forwards
GetComplementUnreversed(s) ==
    IF s = <<>> THEN <<>>
    ELSE ComplementGet(Head(s)) \o GetComplementUnreversed(Tail(s))

RECURSIVE get_revcomp(_)
\* ''.join(c.get(nucleotide, '') for nucleotide in reversed(seq))
get_revcomp(s) ==
    IF s = <<>> THEN <<>>
    ELSE get_revcomp(Tail(s)) \o ComplementGet(Head(s))

\* the characters of the sequences drawn: the mapped ones and one that is not
RevcompChars == {ComplementKeys[k] : k \in 1..Len(ComplementKeys)} \cup {"X"}

InitRevcomp ==
    /\ program = <<>>
    /\ input_files = <<>>
    /\ args = None
    /\ threads = 1
    /\ InitRest
    /\ binaries = [n \in DOMAIN program_names |-> "executable"]
    /\ argv = None
    /\ ns = None
    /\ fasta = <<>>
    /\ kmer_length = 1
    /\ kmer_file = None
    /\ seq \in SeqsOf(RevcompChars, 0, MaxSeqLen)
    /\ revcomp = <<>>

\* a call get_revcomp(x), x being seq or the result of the call before
RevcompCall ==
    /\ Len(revcomp) < MaxRevcompCalls
    /\ revcomp' = Append(revcomp,
                         get_revcomp(IF revcomp = <<>> THEN seq
                                     ELSE revcomp[Len(revcomp)]))
    /\ UNCHANGED <<program, input_files, args, threads, cmd_template,
                   cmd_list, pc, running, i, procs, log, stdout, launches,
                   prints, queued, waited, polled, binaries, argv, ns, fasta,
                   kmer_length, kmer_file, seq>>

NextRevcomp == RevcompCall

SpecRevcomp == InitRevcomp /\ [][NextRevcomp]_vars

(***************************************************************************)
(* sc_iter_fasta_brute and create_kmer_file                                *)
(***************************************************************************)
\* line.startswith(">")
StartsWithGt(line) == line # <<>> /\ line[1] = ">"

RECURSIVE IterFasta(_, _, _)
\* the loop over the lines: the (seq_header, "".join(seq)) pairs yielded,
\* from the lines left, the header and the list seq held so far
IterFasta(lines, seq_header, parts) ==
    IF lines = <<>>
    THEN IF parts # <<>> \/ seq_header.kind # "NoneType"
         THEN <<[header |-> seq_header, sequence |-> JoinStr(<<>>, parts)]>>
         ELSE <<>>
    ELSE IF StartsWithGt(Head(lines))
    THEN (IF parts # <<>>
          THEN <<[header |-> seq_header, sequence |-> JoinStr(<<>>, parts)]>>
          ELSE <<>>)
         \o IterFasta(Tail(lines), PyStr(Head(lines)), <<>>)
    ELSE IterFasta(Tail(lines), seq_header, Append(parts, Head(lines)))

\* the records sc_iter_fasta_brute yields for a file of these lines
sc_iter_fasta_brute(lines) == IterFasta(lines, None, <<>>)

LowerCase ==
    <<"a", "b", "c", "d", "e", "f", "g", "h", "i", "j", "k", "l", "m",
      "n", "o", "p", "q", "r", "s", "t", "u", "v", "w", "x", "y", "z">>
UpperCase ==
    <<"A", "B", "C", "D", "E", "F", "G", "H", "I", "J", "K", "L", "M",
      "N", "O", "P", "Q", "R", "S", "T", "U", "V", "W", "X", "Y", "Z">>

\* sequence.upper()
Upper(s) ==
    [j \in 1..Len(s) |->
        IF \E k \in 1..Len(LowerCase) : LowerCase[k] = s[j]
        THEN UpperCase[CHOOSE k \in 1..Len(LowerCase) : LowerCase[k] = s[j]]
        ELSE s[j]]

\* the characters \s matches in a str
IsSpace(ch) == ch \in {" ", "\t", "\n", "\r", "\f"}

\* the flags re.S and re.M
ReS == 16
ReM == 8

\* re.S | re.M, the fourth positional argument of re.sub, which is count:
\* the two flags share no bit, so their bitwise or is their sum
ReSubCount == ReS + ReM

\* the runs of whitespace of s that start at or before position j
SpaceRunsUpTo(s, j) ==
    Cardinality({p \in 1..j :
                    IsSpace(s[p]) /\ (p = 1 \/ ~IsSpace(s[p - 1]))})

\* re.sub("\s+", "", s, count): s without its first count runs of
\* whitespace, or without any whitespace when count is 0
SubSpaceRuns(s, count) ==
    LET kept == {p \in 1..Len(s) :
                    ~IsSpace(s[p])
                    \/ (count # 0 /\ SpaceRunsUpTo(s, p) > count)}
    IN [m \in 1..Cardinality(kept) |->
           s[CHOOSE p \in kept : Cardinality({q \in kept : q <= p}) = m]]

\* re.sub("\s+", "", sequence, re.S | re.M)
ReSub(s) == SubSpaceRuns(s, ReSubCount)

\* the two statements that rebind sequence before the scan
Normalize(sequence) == ReSub(Upper(sequence))

\* kmers after the loop "for i in xrange(0, len(sequence)-k+1)" over one
\* sequence: pass idx (counted from 1) adds one to kmers[kmer] and one to
\* kmers[rkmer], an absent key of the defaultdict(int) counting from 0
ScanSequence(kmers, sequence, k) ==
    LET passes == 1..(Len(sequence) - k + 1)
        kmer(idx) == SubSeq(sequence, idx, idx + k - 1)
        rkmer(idx) == get_revcomp(kmer(idx))
        keys == DOMAIN kmers \cup {kmer(idx) : idx \in passes}
                             \cup {rkmer(idx) : idx \in passes}
    IN [key \in keys |->
           (IF key \in DOMAIN kmers THEN kmers[key] ELSE 0)
           + Cardinality({idx \in passes : kmer(idx) = key})
           + Cardinality({idx \in passes : rkmer(idx) = key})]

RECURSIVE CountRecords(_, _, _)
\* the loop over the records
CountRecords(kmers, records, k) ==
    IF records = <<>> THEN kmers
    ELSE CountRecords(ScanSequence(kmers, Normalize(Head(records).sequence), k),
                      Tail(records), k)

\* kmers when the loop over the records of the file has ended
KmerCounts(lines, k) ==
    CountRecords([key \in {} |-> 0], sc_iter_fasta_brute(lines), k)

RECURSIVE WriteKmers(_, _)
\* "for kmer in kmers: fh.write(...)": one line "<kmer>\t<count>\n" per
\* key, given by its two fields, in the order the dict iterates
WriteKmers(kmers, keys) ==
    IF keys = {} THEN <<>>
    ELSE LET kmer == CHOOSE x \in keys : TRUE IN
         <<[kmer |-> kmer, count |-> kmers[kmer]]>>
             \o WriteKmers(kmers, keys \ {kmer})

\* the lines of the output file create_kmer_file leaves
create_kmer_file(lines, k) ==
    LET kmers == KmerCounts(lines, k) IN
    [kind |-> "file", val |-> WriteKmers(kmers, DOMAIN kmers)]

\* the lines drawn: a header, and sequence lines with lower case, with a
\* character get_revcomp drops, with blanks inside and without a newline
HeaderLine == <<">", "s", "\n">>
BodyLines ==
    {<<"A", "T", "C", "G", "\n">>, <<"a", "t", "\n">>, <<"G", "X", "\n">>,
     <<"A", " ", "\t", "C", "\n">>, <<"C", "G">>}

\* one record of n equal lines
LongRecord(line, n) == <<HeaderLine>> \o [k \in 1..n |-> line]

FastaFiles ==
    SeqsOf({HeaderLine} \cup BodyLines, 0, MaxFastaLines)
    \cup {LongRecord(line, n) :
            line \in {<<"A", "\n">>, <<"A", "C", "\n">>},
            n \in 0..MaxRecordLines}

InitKmer ==
    /\ program = <<>>
    /\ input_files = <<>>
    /\ args = None
    /\ threads = 1
    /\ InitRest
    /\ binaries = [n \in DOMAIN program_names |-> "executable"]
    /\ argv = None
    /\ ns = None
    /\ fasta \in FastaFiles
    /\ kmer_length \in 1..MaxKmerLength
    /\ kmer_file = None
    /\ seq = <<>>
    /\ revcomp = <<>>

\* a call create_kmer_file(fasta_name, output_name, kmer_length)
CreateKmerFile ==
    /\ kmer_file.kind = "NoneType"
    /\ kmer_file' = create_kmer_file(fasta, kmer_length)
    /\ UNCHANGED <<program, input_files, args, threads, cmd_template,
                   cmd_list, pc, running, i, procs, log, stdout, launches,
                   prints, queued, waited, polled, binaries, argv, ns, fasta,
                   kmer_length, seq, revcomp>>

NextKmer == CreateKmerFile

SpecKmer == InitKmer /\ [][NextKmer]_vars

(***************************************************************************)
(* The facades Extractor, Remove, RmReads and Separate.                    *)
(***************************************************************************)
\* zip(*seqs): the tuples of the k-th elements, for k up to the shortest
ZipAll(seqs) ==
    LET n == CHOOSE m \in 0..Len(seqs[1]) :
                 /\ \A j \in 1..Len(seqs) : m <= Len(seqs[j])
                 /\ \E j \in 1..Len(seqs) : m = Len(seqs[j])
    IN [k \in 1..n |-> [j \in 1..Len(seqs) |-> seqs[j][k]]]

\* the orders in which a dict of these entries may iterate
IterationOrders(entries) ==
    {d \in [1..Len(entries) -> {entries[k] : k \in 1..Len(entries)}] :
        \A j, k \in 1..Len(entries) : d[j] = d[k] => j = k}

\* dict(*positional): the dicts the call may return, each in an iteration
\* order, or TypeError when it is given more than one argument
DictCall(positional) ==
    IF Len(positional) > 1 THEN {TypeError}
    ELSE {PyDict(d) :
             d \in IterationOrders(
                      [k \in 1..Len(positional[1]) |->
                          [key |-> positional[1][k][1],
                           value |-> positional[1][k][2]]])}

FlagF == <<"-", "f">>
FlagO == <<"-", "o">>

\* dict(zip(('-f', '-o'), (fragments, output)))
FragmentArgs(a) ==
    DictCall(<<ZipAll(<<<<FlagF, FlagO>>, <<a.fragments, a.output>>>>)>>)

\* the argument list RmReads.__init__ evaluates for the super call:
\* dict(zip('-f', '-o', '-p', '-l', '-d', '-k', '-c', '-N'), (fragments, ...))
RmReadsArgs(a) ==
    DictCall(<<ZipAll(<<FlagF, FlagO, <<"-", "p">>, <<"-", "l">>,
                        <<"-", "d">>, <<"-", "k">>, <<"-", "c">>,
                        <<"-", "N">>>>),
               <<a.fragments, a.output, a.polygc, a.length, a.dust,
                 a.dust_k, a.dust_cutoff, a.filterN>>>>)

\* the last argument of the RmReads(...) call in cookiecutter()
RmReadsThreads(a) == a.fragments

\* the program, args and threads the facade of a command hands to
\* ParallelLauncher.__init__, as cookiecutter() calls it
Facade(a) ==
    [program |-> program_names[a.command],
     args |-> IF a.command = "rm_reads" THEN RmReadsArgs(a)
              ELSE FragmentArgs(a),
     threads |-> IF a.command = "rm_reads" THEN RmReadsThreads(a)
                 ELSE PyInt(a.threads)]

(***************************************************************************)
(* verify_binaries, the script body and cookiecutter()                     *)
(***************************************************************************)
\* os.path.isfile(path) and os.access(path, os.X_OK)
IsFile(state) == state \in {"plain", "executable"}
AccessX(state) == state = "executable"

\* variant: one usable binary is enough
VerifyAnyBinary(b) ==
    \E n \in DOMAIN program_names : IsFile(b[n]) /\ AccessX(b[n])

\* verify_binaries(): False at the first name whose file fails a test
verify_binaries(b) ==
    ~ \E n \in DOMAIN program_names : ~IsFile(b[n]) \/ ~AccessX(b[n])

\* variant: no test of the two lengths
SameLengthUntested(first, second) == TRUE

\* len(args.fastq1) == len(args.fastq2)
SameLength(first, second) == Len(first) = Len(second)

\* the namespaces drawn: one of -i and -1 is given (a mutually exclusive
\* required group), -2 is optional
FileNames == {<<"a">>, <<"b">>}
FileLists == SeqsOf(FileNames, 1, 2)
Absent == [kind |-> "absent", val |-> <<>>]
PyList(l) == [kind |-> "list", val |-> l]

ToolNamespaces ==
    {[kind |-> "Namespace", command |-> c, echo |-> e,
      input |-> f[1], fastq1 |-> f[2], fastq2 |-> f[3], threads |-> t,
      fragments |-> PyStr(<<"x">>), output |-> PyStr(<<"y">>),
      polygc |-> PyInt(13), length |-> PyInt(50), dust |-> PyBool(FALSE),
      dust_k |-> PyInt(4), dust_cutoff |-> PyInt(2),
      filterN |-> PyBool(FALSE)] :
        c \in DOMAIN program_names,
        e \in BOOLEAN,
        t \in (0 - NegThreads)..MaxThreads,
        f \in {<<PyList(l), Absent, Absent>> : l \in FileLists}
               \cup {<<PyList(l), Absent, PyList(m)>> :
                        l \in FileLists, m \in FileLists}
               \cup {<<Absent, PyList(l), Absent>> : l \in FileLists}
               \cup {<<Absent, PyList(l), PyList(m)>> :
                        l \in FileLists, m \in FileLists}}

\* make_library -i input -o output -l length
LibraryNamespaces ==
    {[kind |-> "Namespace", command |-> "make_library", echo |-> e,
      input |-> PyStr(<<"a">>), output |-> PyStr(<<"y">>), length |-> l] :
        e \in BOOLEAN, l \in 1..MaxKmerLength}

Namespaces == ToolNamespaces \cup LibraryNamespaces

BinaryStates == {"missing", "plain", "executable"}

InitMain ==
    /\ program = <<>>
    /\ input_files = <<>>
    /\ args = None
    /\ threads = 0
    /\ cmd_template = None
    /\ cmd_list = <<>>
    /\ pc = "main"
    /\ running = <<>>
    /\ i = 0
    /\ procs = <<>>
    /\ log = <<>>
    /\ stdout = <<>>
    /\ launches = 0
    /\ prints = 0
    /\ queued = 0
    /\ waited = FALSE
    /\ polled = FALSE
    /\ binaries \in [DOMAIN program_names -> BinaryStates]
    /\ argv \in Namespaces
    /\ ns = None
    /\ fasta = <<HeaderLine, <<"A", "T", "C", "G", "\n">>>>
    /\ kmer_length = 1
    /\ kmer_file = None
    /\ seq = <<>>
    /\ revcomp = <<>>

\* if not verify_binaries(): ...; sys.exit(1)
Main ==
    /\ pc = "main"
    /\ pc' = IF verify_binaries(binaries) THEN "parse" ELSE "exit1"
    /\ UNCHANGED <<program, input_files, args, threads, cmd_template,
                   cmd_list, running, i, procs, log, stdout, launches, prints,
                   queued, waited, polled>>
    /\ UNCHANGED env

\* args = parser.parse_args()
ParseArgs ==
    /\ pc = "parse"
    /\ ns' = argv
    /\ pc' = "dispatch"
    /\ UNCHANGED <<program, input_files, args, threads, cmd_template,
                   cmd_list, running, i, procs, log, stdout, launches, prints,
                   queued, waited, polled>>
    /\ UNCHANGED <<binaries, argv, fasta, kmer_length, kmer_file, seq,
                   revcomp>>

\* if args.command == 'make_library': create_kmer_file(...)
MakeLibrary ==
    /\ pc = "dispatch"
    /\ ns.command = "make_library"
    /\ kmer_length' = ns.length
    /\ kmer_file' = create_kmer_file(fasta, ns.length)
    /\ pc' = "exit0"
    /\ UNCHANGED <<program, input_files, args, threads, cmd_template,
                   cmd_list, running, i, procs, log, stdout, launches, prints,
                   queued, waited, polled>>
    /\ UNCHANGED <<binaries, argv, ns, fasta, seq, revcomp>>

\* the else branch up to the choice of input_files: args.input, or the zip
\* of the two lists; reading args.fastq2 raises AttributeError when -2 was
\* not given, and lists of different lengths raise Exception
SelectInput ==
    /\ pc = "dispatch"
    /\ ns.command # "make_library"
    /\ IF ns.input.kind # "absent"
       THEN /\ input_files' = [k \in 1..Len(ns.input.val) |->
                                  PyStr(ns.input.val[k])]
            /\ pc' = "facade"
       ELSE IF ns.fastq2.kind = "absent"
       THEN /\ pc' = "raised"
            /\ UNCHANGED input_files
       ELSE IF SameLength(ns.fastq1.val, ns.fastq2.val)
       THEN /\ input_files' =
                  [k \in 1..Len(ZipAll(<<ns.fastq1.val, ns.fastq2.val>>)) |->
                      PyTuple(ZipAll(<<ns.fastq1.val, ns.fastq2.val>>)[k])]
            /\ pc' = "facade"
       ELSE /\ pc' = "raised"
            /\ UNCHANGED input_files
    /\ UNCHANGED <<program, args, threads, cmd_template, cmd_list, running,
                   i, procs, log, stdout, launches, prints, queued, waited,
                   polled>>
    /\ UNCHANGED env

\* launcher = Extractor(...) | Remove(...) | RmReads(...) | Separate(...),
\* up to the entry of ParallelLauncher.__init__
CallFacade ==
    /\ pc = "facade"
    /\ \E a \in Facade(ns).args :
          IF a.kind = "TypeError"
          THEN /\ pc' = "raised"
               /\ UNCHANGED <<program, args, threads>>
          ELSE /\ program' = Facade(ns).program
               /\ args' = a
               /\ threads' = Facade(ns).threads.val
               /\ pc' = "new"
    /\ UNCHANGED <<input_files, cmd_template, cmd_list, running, i, procs,
                   log, stdout, launches, prints, queued, waited, polled>>
    /\ UNCHANGED env

\* if not args.echo: launcher.launch()
MainLaunch ==
    /\ ns.kind # "NoneType"
    /\ ~ns.echo
    /\ launches = 0
    /\ LaunchCall

\* else: launcher.print_commands()
MainPrint ==
    /\ ns.kind # "NoneType"
    /\ ns.echo
    /\ prints = 0
    /\ PrintCommands

NextMain ==
    \/ Main
    \/ ParseArgs
    \/ MakeLibrary
    \/ SelectInput
    \/ CallFacade
    \/ Construct
    \/ MainLaunch
    \/ MainPrint
    \/ OuterTest
    \/ InnerTest
    \/ Poll
    \/ Sleep
    \/ Spawn
    \/ ChildExits

SpecMain == InitMain /\ [][NextMain]_vars

(***************************************************************************)
(* Helpers of the properties.                                              *)
(***************************************************************************)
\* how often x occurs in the sequence s
Count(s, x) == Cardinality({k \in 1..Len(s) : s[k] = x})

Min(a, b) == IF a <= b THEN a ELSE b

\* the commands of the processes spawned so far, in spawn order
Spawned == [k \in 1..Len(procs) |-> procs[k].cmd]

\* the queue __init__ built
Queue0 == CmdList(cmd_template, input_files)

\* a launch() call has returned and none is in progress
Returned == pc = "idle" /\ launches >= 1

HasExited(p) == procs[p].returncode.kind = "int"

Logged(p) == \E k \in 1..Len(log) : log[k].proc = p

(***************************************************************************)
(* C1: with capacity c >= 0 the Running list of launch() never holds more  *)
(* than c+1 jobs, and whenever launch() is about to spawn it holds at most *)
(* c jobs.                                                                 *)
(***************************************************************************)
C1_RunningBound ==
    threads >= 0 =>
        /\ Len(running) <= threads + 1
        /\ (pc = "spawn" => Len(running) <= threads)

\* launch() has waited and spawned again: the list is at c+1
C1_Witness ==
    /\ threads >= 0
    /\ waited
    /\ pc = "outer"
    /\ Len(running) = threads + 1

(***************************************************************************)
(* C2: whatever the exit codes of the children, no command of the queue is *)
(* spawned twice, and when launch() has returned every command of the      *)
(* queue has been spawned exactly once: a non-zero exit stops nothing.     *)
(***************************************************************************)
C2_SpawnedOnce ==
    pc \notin {"new", "raised"} =>
        /\ \A k \in 1..Len(Queue0) :
              Count(Spawned, Queue0[k]) + Count(cmd_list, Queue0[k])
                  = Count(Queue0, Queue0[k])
        /\ \A k \in 1..Len(procs) : Count(Queue0, procs[k].cmd) >= 1
        /\ Returned =>
              /\ cmd_list = <<>>
              /\ Len(procs) = Len(Queue0)
              /\ \A k \in 1..Len(Queue0) :
                    Count(Spawned, Queue0[k]) = Count(Queue0, Queue0[k])

\* launch() has returned after reaping a child that failed and spawning on
C2_Witness ==
    /\ Returned
    /\ Len(procs) >= 2
    /\ \E k \in 1..Len(log) :
          log[k].outcome = "failed" /\ log[k].proc < Len(procs)

(***************************************************************************)
(* C3: every job launch() spawned that has exited has an outcome record:   *)
(* "succeeded" for exit code 0, "failed" for any other. Stated of the      *)
(* states in which no launch() is in progress, where no record can follow. *)
(***************************************************************************)
C3_EveryExitLogged ==
    Returned =>
        \A p \in 1..Len(procs) :
            HasExited(p) =>
                \E k \in 1..Len(log) :
                    /\ log[k].proc = p
                    /\ log[k].outcome =
                          (IF procs[p].returncode.val = 0
                           THEN "succeeded" ELSE "failed")

(***************************************************************************)
(* C4: the queue is consumed last-in first-out: the k-th process spawned   *)
(* runs the command of input unit N-k+1, whenever the children exit.       *)
(***************************************************************************)
C4_Lifo ==
    \A k \in 1..Len(procs) :
        procs[k].cmd =
            Command(cmd_template, input_files[Len(input_files) + 1 - k])

\* two different commands were spawned, a child having exited in between
C4_Witness ==
    /\ Len(procs) >= 2
    /\ procs[1].cmd # procs[2].cmd
    /\ log # <<>>
    /\ input_files[1] # input_files[Len(input_files)]

(***************************************************************************)
(* C5: with capacity >= 0, the caller's thread running on and every child  *)
(* exiting, a launch() in progress returns, and the queue is then empty.   *)
(***************************************************************************)
C5_LaunchReturns ==
    (pc \in LaunchPcs /\ threads >= 0) ~> (pc = "idle" /\ cmd_list = <<>>)

\* a launch() that had to wait has returned
C5_Witness ==
    /\ Returned
    /\ threads >= 0
    /\ waited
    /\ cmd_list = <<>>
    /\ Len(log) >= 2

(***************************************************************************)
(* C6: when launch() returns for N commands and capacity c >= 0, it has    *)
(* not polled since its last spawn and its Running list holds exactly      *)
(* min(N, c+1) jobs, none of them reaped.                                  *)
(***************************************************************************)
C6_ReturnsWithJobsInFlight ==
    (Returned /\ threads >= 0) =>
        /\ Len(running) = Min(queued, threads + 1)
        /\ ~polled
        /\ \A k \in 1..Len(running) : ~Logged(running[k])

\* launch() has returned while jobs of its Running list still execute
C6_Witness ==
    /\ Returned
    /\ threads >= 0
    /\ waited
    /\ Len(running) = threads + 1
    /\ \A k \in 1..Len(running) : ~HasExited(running[k])

(***************************************************************************)
(* C7: on a launcher built from N input units, print_commands() writes N   *)
(* lines, line i being the command of input unit i, spawns nothing and     *)
(* leaves the queue as it was, so a second call writes the same lines.     *)
(***************************************************************************)
C7_PrintCommands ==
    (prints >= 1 /\ launches = 0) =>
        /\ Len(stdout) = Len(input_files)
        /\ \A k \in 1..Len(input_files) :
              stdout[k] = Command(cmd_template, input_files[k])
        /\ cmd_list = Queue0
        /\ procs = <<>>

\* print_commands() was called twice on a launcher of different units
C7_Witness ==
    /\ prints = 2
    /\ launches = 0
    /\ Len(input_files) >= 2
    /\ input_files[1] # input_files[2]
    /\ Len(stdout) = Len(input_files)

(***************************************************************************)
(* C8: with an empty list of input units launch() spawns no process, never *)
(* enters its wait loop and goes from its first test straight to its       *)
(* return, whatever the capacity.                                          *)
(***************************************************************************)
C8_EmptyLaunch ==
    (input_files = <<>> /\ launches >= 1) =>
        /\ pc \in {"outer", "idle"}
        /\ procs = <<>>
        /\ running = <<>>
        /\ ~waited

\* launch() has returned on an empty launcher of negative capacity
C8_Witness ==
    /\ input_files = <<>>
    /\ Returned
    /\ threads < 0

\* the decimal text of a natural number
RECURSIVE Decimal(_)
Decimal(n) ==
    LET digit == <<"0", "1", "2", "3", "4", "5", "6", "7", "8", "9">> IN
    IF n < 10 THEN <<digit[n + 1]>>
    ELSE Decimal(n \div 10) \o <<digit[(n % 10) + 1]>>

\* the text of a scalar argument value
ValueText(v) == IF v.kind = "int" THEN Decimal(v.val) ELSE v.val

\* the tokens of a command line: its maximal runs without a space
RECURSIVE Tokens(_)
Tokens(line) ==
    IF line = <<>> THEN <<>>
    ELSE IF Head(line) = " " THEN Tokens(Tail(line))
    ELSE LET ends == {k \in 1..Len(line) : line[k] = " "}
             n == IF ends = {} THEN Len(line)
                  ELSE (CHOOSE k \in ends : \A j \in ends : k <= j) - 1
         IN <<SubSeq(line, 1, n)>> \o Tokens(SubSeq(line, n + 1, Len(line)))

\* the argument tokens the claim C10 states for the entries of an ArgumentSet
RECURSIVE StatedArgTokens(_)
StatedArgTokens(entries) ==
    IF entries = <<>> THEN <<>>
    ELSE LET e == Head(entries) IN
         (IF e.value.kind = "bool"
          THEN (IF e.value.val THEN <<e.key>> ELSE <<>>)
          ELSE <<e.key, ValueText(e.value)>>)
         \o StatedArgTokens(Tail(entries))

(***************************************************************************)
(* C9: the command of a paired unit (A, B) ends with the file selector     *)
(* "-1 A -2 B", and the command of a single-end unit, one path A of any    *)
(* length, ends with "-i A".                                               *)
(***************************************************************************)
C9_FileSelectorByArity ==
    pc = "idle" =>
        \A k \in 1..Len(input_files) :
            LET unit == input_files[k] IN
            cmd_list[k] =
                cmd_template.val \o <<" ">> \o
                (IF unit.kind = "tuple"
                 THEN <<"-", "1", " ">> \o unit.val[1]
                         \o <<" ", "-", "2", " ">> \o unit.val[2]
                 ELSE <<"-", "i", " ">> \o unit.val)

(***************************************************************************)
(* C10: for any ArgumentSet the builder makes a template whose argument    *)
(* tokens are the flag alone for a true boolean, the flag and the value    *)
(* for a value that is no boolean, and nothing for a false boolean.        *)
(***************************************************************************)
C10_ArgumentTokens ==
    pc # "new" =>
        /\ cmd_template.kind = "str"
        /\ Tokens(cmd_template.val) =
              <<program>> \o (IF args.kind = "NoneType" THEN <<>>
                              ELSE StatedArgTokens(args.val))

\* the flags C11 states for a command, each with the value supplied
StatedBindings(a) ==
    {<<<<"-", "f">>, a.fragments>>, <<<<"-", "o">>, a.output>>}
    \cup (IF a.command # "rm_reads" THEN {}
          ELSE {<<<<"-", "p">>, a.polygc>>, <<<<"-", "l">>, a.length>>,
                <<<<"-", "d">>, a.dust>>, <<<<"-", "k">>, a.dust_k>>,
                <<<<"-", "c">>, a.dust_cutoff>>, <<<<"-", "N">>, a.filterN>>})

\* a facade was called with the K input units of the command line
FacadeCalled ==
    /\ ns.kind = "Namespace"
    /\ ns.command # "make_library"
    /\ pc \notin {"dispatch", "facade", "new"}
    /\ \/ ns.input.kind # "absent"
       \/ /\ ns.fastq2.kind # "absent"
          /\ Len(ns.fastq1.val) = Len(ns.fastq2.val)

InputUnits ==
    IF ns.input.kind # "absent" THEN Len(ns.input.val)
    ELSE Len(ns.fastq1.val)

(***************************************************************************)
(* C11: each of the four facades constructs a launcher from its K input    *)
(* units: no exception, K commands for the program of the command, an      *)
(* argument set that binds exactly the flags of the facade to the values   *)
(* supplied, and a capacity equal to the -t value.                         *)
(***************************************************************************)
C11_FacadeConstructs ==
    FacadeCalled =>
        /\ pc # "raised"
        /\ program = program_names[ns.command]
        /\ Len(input_files) = InputUnits
        /\ (launches = 0 => Len(cmd_list) = InputUnits)
        /\ args.kind = "dict"
        /\ {<<args.val[k].key, args.val[k].value>> : k \in 1..Len(args.val)}
              = StatedBindings(ns)
        /\ threads = ns.threads

\* -1 and -2 were given with different numbers of files
Mismatched ==
    /\ argv.command # "make_library"
    /\ argv.input.kind = "absent"
    /\ argv.fastq2.kind # "absent"
    /\ Len(argv.fastq1.val) # Len(argv.fastq2.val)

(***************************************************************************)
(* C12: when the lists of -1 and of -2 differ in length the run ends in an *)
(* exception once the arguments are examined, and at no time is a launcher *)
(* constructed, a command built, a line printed or a process spawned.      *)
(***************************************************************************)
C12_MismatchFailsEarly ==
    Mismatched =>
        /\ pc \in {"main", "exit1", "parse", "dispatch", "raised"}
        /\ (pc = "raised" <=> (ns.kind = "Namespace" /\ input_files = <<>>
                                 /\ pc \notin {"parse", "dispatch"}))
        /\ program = <<>>
        /\ args = None
        /\ cmd_template = None
        /\ cmd_list = <<>>
        /\ stdout = <<>>
        /\ prints = 0
        /\ launches = 0
        /\ procs = <<>>

C12_Witness ==
    /\ Mismatched
    /\ pc = "raised"
    /\ ns.echo
    /\ Len(ns.fastq1.val) = 2
    /\ Len(ns.fastq2.val) = 1

\* the four executables are regular files with the execute permission
AllUsable ==
    \A n \in {"extractor", "remove", "rm_reads", "separate"} :
        binaries[n] = "executable"

StatedComplement(ch) ==
    CASE ch = "A" -> "T" [] ch = "T" -> "A" [] ch = "C" -> "G"
      [] ch = "G" -> "C" [] ch = "N" -> "N"
      [] ch = "a" -> "t" [] ch = "t" -> "a" [] ch = "c" -> "g"
      [] ch = "g" -> "c" [] ch = "n" -> "n"
      [] ch = "[" -> "]" [] ch = "]" -> "["
      [] OTHER -> ""

IsMapped(ch) == StatedComplement(ch) # ""

(***************************************************************************)
(* C14: get_revcomp(s) is s without its unmapped characters, reversed and  *)
(* complemented character by character; its length is the number of mapped *)
(* characters of s, and on a sequence of mapped characters only it keeps   *)
(* the length and applying it twice gives s back.                          *)
(***************************************************************************)
C14_Revcomp ==
    LET mapped == SelectSeq(seq, IsMapped)
        n == Len(mapped)
    IN /\ Len(revcomp) >= 1 =>
            /\ Len(revcomp[1]) = n
            /\ \A j \in 1..n :
                  revcomp[1][j] = StatedComplement(mapped[n + 1 - j])
       /\ (Len(revcomp) >= 2 /\ mapped = seq) =>
            /\ Len(revcomp[1]) = Len(seq)
            /\ revcomp[2] = seq
       /\ Len(revcomp) >= 2 => revcomp[2] = mapped

\* get_revcomp was applied twice to a sequence of mapped characters, a
\* bracket among them, that is not its own reverse complement
C14_Witness ==
    /\ Len(revcomp) = 2
    /\ Len(seq) >= 3
    /\ SelectSeq(seq, IsMapped) = seq
    /\ revcomp[1] # seq
    /\ seq[1] # seq[3]
    /\ \E k \in 1..Len(seq) : seq[k] = "["

NotSpace(ch) == ~IsSpace(ch)

\* the sequence of a record as C15 and C16 state it: upper case, and no
\* whitespace at all
StatedSequence(record) == SelectSeq(Upper(record.sequence), NotSpace)

\* the texts of the forward windows of the file, each with its record and
\* its start
StatedWindows ==
    LET records == sc_iter_fasta_brute(fasta)
        clean == [r \in 1..Len(records) |-> StatedSequence(records[r])]
    IN UNION {{<<r, idx, SubSeq(clean[r], idx, idx + kmer_length - 1)>> :
                  idx \in 1..(Len(clean[r]) - kmer_length + 1)} :
              r \in 1..Len(records)}

WindowText(w) == w[3]

RECURSIVE SumCounts(_)
SumCounts(lines) ==
    IF lines = <<>> THEN 0 ELSE Head(lines).count + SumCounts(Tail(lines))

(***************************************************************************)
(* C15: for every record, of whitespace-free upper-case sequence of length *)
(* L >= k, the file written counts each of the L-k+1 forward windows once  *)
(* and its reverse complement once: the counts sum to 2(L-k+1) per record, *)
(* a window that is its own reverse complement gains 2, and there is one   *)
(* line per distinct k-mer.                                                *)
(***************************************************************************)
C15_KmerCounts ==
    kmer_file.kind = "file" =>
        LET lines == kmer_file.val
            windows == StatedWindows
        IN
        /\ SumCounts(lines) = 2 * Cardinality(windows)
        /\ \A n \in 1..Len(lines) :
              lines[n].count =
                  Cardinality({w \in windows : WindowText(w) = lines[n].kmer})
                  + Cardinality({w \in windows :
                                  get_revcomp(WindowText(w)) = lines[n].kmer})
        /\ \A w \in windows :
              /\ \E n \in 1..Len(lines) : lines[n].kmer = WindowText(w)
              /\ \E n \in 1..Len(lines) :
                    lines[n].kmer = get_revcomp(WindowText(w))
        /\ \A m, n \in 1..Len(lines) : lines[m].kmer = lines[n].kmer => m = n

(***************************************************************************)
(* C16: all whitespace of a record is removed before the scan, however     *)
(* many lines the record has: no k-mer written holds a whitespace          *)
(* character.                                                              *)
(***************************************************************************)
C16_NoWhitespaceInKmers ==
    kmer_file.kind = "file" =>
        \A n \in 1..Len(kmer_file.val) :
            \A j \in 1..Len(kmer_file.val[n].kmer) :
                ~IsSpace(kmer_file.val[n].kmer[j])

\* launch() was given at least c+1 commands, with capacity c >= 0
GivenMoreThanCapacity ==
    /\ threads >= 0
    /\ launches >= 1
    /\ queued >= threads + 1

(***************************************************************************)
(* C17: when launch() is given N >= c+1 commands with capacity c >= 0,     *)
(* then until its first wait it has neither polled nor logged and every    *)
(* command taken from the queue is a job of the Running list; by the time  *)
(* it first waits c+1 processes were spawned, and as long as none was      *)
(* reaped the Running list of a launch() that waits holds exactly c+1.     *)
(***************************************************************************)
C17_StrictCapacityCheck ==
    GivenMoreThanCapacity =>
        /\ ~waited =>
              /\ ~polled
              /\ log = <<>>
              /\ Len(running) = queued - Len(cmd_list)
              /\ Len(running) = Len(procs)
              /\ Len(running) <= threads + 1
        /\ waited => Len(procs) >= threads + 1
        /\ (waited /\ log = <<>>) => Len(running) = threads + 1

\* the first wait begins: c+1 jobs run, nothing was polled
C17_Witness ==
    /\ GivenMoreThanCapacity
    /\ threads = 1
    /\ pc = "scan"
    /\ waited
    /\ ~polled
    /\ Len(running) = 2
    /\ Len(procs) = 2
    /\ cmd_list # <<>>

\* the list r without its k-th element, the others in their order
Without(r, k) == SubSeq(r, 1, k - 1) \o SubSeq(r, k + 1, Len(r))

(***************************************************************************)
(* C18: a step of the scan of the Running list either leaves the list as   *)
(* it is, or removes the one job it polls, which has exited, keeps the     *)
(* others in their order, logs that job and ends the pass; the scan goes   *)
(* on to the next job only past a job that has not exited, and a pass that *)
(* ends without a removal has gone past every job of the list.             *)
(***************************************************************************)
C18_OneReapPerPass ==
    [][pc = "scan" =>
         \/ /\ running' = running
            /\ log' = log
            /\ pc' = "scan" =>
                  \/ i' = i
                  \/ i' = i + 1 /\ ~HasExited(running[i])
            /\ pc' # "scan" => (pc' = "sleep" /\ i > Len(running))
         \/ /\ i \in 1..Len(running)
            /\ HasExited(running[i])
            /\ running' = Without(running, i)
            /\ Len(log') = Len(log) + 1
            /\ log'[Len(log')].proc = running[i]
            /\ pc' = "sleep"]_vars

\* the second job of the list was reaped while the first, exited by now,
\* stays listed
C18_Witness ==
    /\ pc = "sleep"
    /\ Len(log) = 1
    /\ log[1].proc = 2
    /\ running = <<1>>
    /\ HasExited(1)

\* the set of jobs in a Running list
Jobs(r) == {r[k] : k \in 1..Len(r)}

\* the queue is not empty, more than capacity jobs run and none has exited
Stalled ==
    /\ pc \in {"inner", "scan", "sleep"}
    /\ cmd_list # <<>>
    /\ Len(running) > threads
    /\ \A k \in 1..Len(running) : ~HasExited(running[k])

(***************************************************************************)
(* C19: no step of launch() changes the exit status of a child; a job      *)
(* leaves the Running list of a launch() in progress only at the poll that *)
(* finds it exited; and while no child exits, a launch() with a non-empty  *)
(* queue and more than capacity jobs stays so: it spawns nothing and does  *)
(* not return.                                                             *)
(***************************************************************************)
C19_NoKillNoTimeout ==
    [][/\ \A p \in 1..Len(procs) :
             \/ procs'[p] = procs[p]
             \/ /\ ~HasExited(p)
                /\ UNCHANGED <<pc, i, running, cmd_list, log>>
       /\ pc \in LaunchPcs =>
             \A p \in Jobs(running) \ Jobs(running') :
                 pc = "scan" /\ running[i] = p /\ HasExited(p)
       /\ (Stalled /\ procs' = procs) =>
             /\ Stalled'
             /\ running' = running
             /\ cmd_list' = cmd_list]_vars

\* a full pass over two hung children, a command still queued
C19_Witness ==
    /\ Stalled
    /\ threads = 1
    /\ pc = "sleep"
    /\ polled
    /\ Len(running) = 2
    /\ log = <<>>

(***************************************************************************)
(* C20: when launch() has returned the queue is empty; a print_commands()  *)
(* that follows writes no line, a second launch() spawns no process, and   *)
(* no step changes the input units, the argument set or the capacity.      *)
(***************************************************************************)
C20_LaunchConsumesQueue ==
    [][/\ (Returned \/ Returned') => cmd_list' = <<>>
       /\ (Returned /\ prints' # prints) => stdout' = <<>>
       /\ launches' >= 2 => Len(procs') = Len(procs)
       /\ input_files' = input_files
       /\ args' = args
       /\ threads' = threads
       /\ program' = program]_vars

\* after a launch of two commands: an empty print and a second launch
C20_Witness ==
    /\ Returned
    /\ launches = 2
    /\ prints >= 1
    /\ stdout = <<>>
    /\ Len(input_files) >= 2
    /\ Len(procs) = Len(input_files)
    /\ cmd_list = <<>>

\* launch() was called with a negative capacity and a non-empty queue
NegativeCapacity ==
    /\ threads < 0
    /\ launches >= 1
    /\ queued >= 1

(***************************************************************************)
(* C21: a launch() with a negative capacity and a non-empty queue never    *)
(* spawns and never returns: its Running list stays empty, its queue stays *)
(* whole, no process exists; once in the wait loop it does not leave it,   *)
(* and, the caller's thread running on, it enters the wait loop and comes  *)
(* to its sleep again and again.                                           *)
(***************************************************************************)
C21_NegativeCapacityHangs ==
    /\ [](NegativeCapacity =>
            /\ pc \in {"outer", "inner", "scan", "sleep"}
            /\ waited => pc \in {"inner", "scan", "sleep"}
            /\ running = <<>>
            /\ procs = <<>>
            /\ log = <<>>
            /\ Len(cmd_list) = queued
            /\ launches = 1)
    /\ NegativeCapacity ~> (waited /\ pc = "sleep")

\* in the wait loop with nothing to wait for, two commands queued
C21_Witness ==
    /\ NegativeCapacity
    /\ threads = 0 - 1
    /\ waited
    /\ pc = "sleep"
    /\ running = <<>>
    /\ procs = <<>>
    /\ Len(cmd_list) = 2

====
